---- MODULE Spec2Model ----
(***************************************************************************)
(* State-machine model of the SignalR React client:                        *)
(*   - SignalRService (src/src/services/signalrService.js): the singleton  *)
(*     that owns this.connection, this.isConnected and the listener lists; *)
(*   - useSignalR (src/src/hooks/useSignalR.js): the hook's React state    *)
(*     and its connect / disconnect / joinGroup / leaveGroup / send        *)
(*     callbacks, in both variants the file holds (with and without URL    *)
(*     validation);                                                        *)
(*   - the HubConnection the service builds (state machine, automatic      *)
(*     reconnect schedule, invoke, stop) and the ChatHub methods           *)
(*     (src/.github/copilot-instructions.md).                              *)
(* Strings the code only compares for blankness are kept as strings; hub   *)
(* URLs are sequences of characters so that trim() and new URL() are       *)
(* computed.  Timestamps and user names carry no behaviour and are left    *)
(* out of a log entry; the delays of the reconnect schedule only order the *)
(* attempts.                                                               *)
(*                                                                         *)
(* HubConnection objects: slot 0 is the object this.connection refers to   *)
(* (state "None" while this.connection is null); the other slots hold      *)
(* objects startConnection replaced while they were still running.  The    *)
(* service never restarts an object, so one that reached Disconnected is   *)
(* inert: its slot keeps only the state, and a replaced one is dropped.    *)
(*                                                                         *)
(* Scheduling: a pending re-render runs before the next network event is   *)
(* dispatched.  Two specifications differ in who calls the hook:           *)
(*   Spec      the callbacks are called from the rendered UI, so a call    *)
(*             sees the state of a committed render; every operation of    *)
(*             the client and the hub is in it;                            *)
(*   SpecRace  connect and disconnect are called from code, also back to   *)
(*             back before React has re-rendered, so a call may run with   *)
(*             the values an older render captured; the connection         *)
(*             lifecycle is in it;                                         *)
(*   SpecRaceChat  connect is called from code as in SpecRace, and the     *)
(*             client joins rooms and sends to them.                       *)
(***************************************************************************)
EXTENDS Integers, Sequences, FiniteSets, TLC

\* ------------------------------------------------------------------ bounds
MaxOrphans == 1     \* replaced HubConnection objects still running at one time
MaxUrlLen == 2      \* longest hub URL tried
MaxGroups == 1      \* distinct non-blank group names tried
MaxInFlight == 2    \* invocations awaiting their completion, per channel
MaxEvents == 2      \* message events travelling to the client, per channel
MaxLog == 2         \* log entries before the hub stops producing events
MaxListeners == 4   \* entries of each listener list before the effect stops re-running

\* ---------------------------------------------------------------- inputs
Chars == {" ", "a", ":"}

RECURSIVE SeqsUpTo(_)
SeqsUpTo(n) ==
    IF n = 0 THEN {<<>>}
    ELSE LET shorter == SeqsUpTo(n - 1)
         IN  shorter \cup {Append(s, ch) : s \in shorter, ch \in Chars}

Urls == SeqsUpTo(MaxUrlLen)

RoomNames == <<"room1", "room2", "room3">>
Rooms == {RoomNames[i] : i \in 1..MaxGroups}
GroupNames == {""} \cup Rooms
Bodies == {"", "hi"}

Slots == 0..MaxOrphans

\* String.prototype.trim on a URL
RECURSIVE TrimLeft(_)
TrimLeft(u) == IF u # <<>> /\ Head(u) = " " THEN TrimLeft(Tail(u)) ELSE u

RECURSIVE TrimRight(_)
TrimRight(u) ==
    IF u # <<>> /\ u[Len(u)] = " " THEN TrimRight(SubSeq(u, 1, Len(u) - 1)) ELSE u

trim(u) == TrimRight(TrimLeft(u))

\* !url || !url.trim()
UrlMissing(u) == u = <<>> \/ trim(u) = <<>>

\* new URL(url) without a base: surrounding whitespace is stripped, then a
\* scheme (a letter, then letters) and ":" must open the string.
UrlParses(u) ==
    LET t == trim(u)
    IN  \E i \in 2..Len(t) : t[i] = ":" /\ \A j \in 1..(i - 1) : t[j] = "a"

\* HubConnectionBuilder.withUrl(url): Arg.isNotEmpty rejects "" and blank.
BuilderAccepts(u) == ~(u = <<>> \/ trim(u) = <<>>)

\* string.IsNullOrWhiteSpace in the hub methods
IsNullOrWhiteSpace(s) == s \in {"", " "}

\* withAutomaticReconnect([0, 2000, 10000, 30000])
retryDelays == <<0, 2000, 10000, 30000>>

\* The reconnect policy: the delay before attempt number previousRetryCount+1,
\* or -1 (null) when the schedule is used up.
nextRetryDelayInMilliseconds(previousRetryCount) ==
    IF previousRetryCount < Len(retryDelays)
    THEN retryDelays[previousRetryCount + 1]
    ELSE -1

\* ----------------------------------------------------------------- state
VARIABLES
    chan,              \* the HubConnection objects, by slot; chan[0] is this.connection
    svcIsConnected,    \* this.isConnected of the service
    connectionCallbacks,    \* length of this.connectionCallbacks
    disconnectionCallbacks, \* length of this.disconnectionCallbacks
    isConnected, isConnecting, connectionError, messages, joinedGroups,
                       \* the hook's React state
    seenConnected, seenConnecting,
                       \* isConnected / isConnecting as captured by the
                       \* callbacks and the effect of the last render
    notified,          \* callback calls made by the last connectionCallbacks.forEach
    second             \* a second component that uses the hook: whether it is
                       \* mounted, its isConnected and connectionError, and the
                       \* isConnected its effect captured

vars == <<chan, svcIsConnected, connectionCallbacks, disconnectionCallbacks,
          isConnected, isConnecting, connectionError, messages, joinedGroups,
          seenConnected, seenConnecting, notified, second>>

listenerVars == <<connectionCallbacks, disconnectionCallbacks>>
hookVars == <<isConnected, isConnecting, connectionError, messages, joinedGroups>>
renderVars == <<seenConnected, seenConnecting>>

\* A HubConnection object:
\*   state    HubConnection.state ("None": no object in the slot)
\*   started  a start() completed, so a close will call the onclose handler
\*   attempt  failed attempts of the running reconnect
\*   renewed  connectionId is no longer the one start() obtained: a reconnect
\*            gave the object a new identity
\*   msgH, grpH  handlers registered on 'ReceiveMessage' / 'ReceiveGroupMessage'
\*   wire     invocations travelling client -> hub, in order
\*   inbox    events and completions travelling hub -> client, in order
\*   groups   the groups the hub holds for the object's connection identity
\*   waiters  continuations awaiting connection.stop()
\*   greeted  the hub's OnConnectedAsync has sent its Connected event
NoChannel ==
    [state |-> "None", started |-> FALSE, attempt |-> 0, renewed |-> FALSE,
     greeted |-> FALSE,
     msgH |-> 0, grpH |-> 0,
     wire |-> <<>>, inbox |-> <<>>, groups |-> {}, waiters |-> {}]

Closed == [NoChannel EXCEPT !.state = "Disconnected"]

connection == chan[0]

Live(r) == r.state \notin {"None", "Disconnected"}

\* The slot's content after an update: an object that reached Disconnected
\* keeps only its state in slot 0 and leaves any other slot.
Settle(k, r) ==
    IF r.state = "Disconnected" THEN (IF k = 0 THEN Closed ELSE NoChannel) ELSE r

\* The React state of a hook instance no component has mounted yet.
NotMounted ==
    [mounted |-> FALSE, isConnected |-> FALSE, seenConnected |-> FALSE,
     connectionError |-> "none"]

\* The state after the module is loaded and the hook is mounted: the service
\* constructor has run, and the effect has registered its two listeners once.
Init ==
    /\ chan = [k \in Slots |-> NoChannel]
    /\ svcIsConnected = FALSE
    /\ connectionCallbacks = 1
    /\ disconnectionCallbacks = 1
    /\ isConnected = FALSE
    /\ isConnecting = FALSE
    /\ connectionError = "none"
    /\ messages = <<>>
    /\ joinedGroups = <<>>
    /\ seenConnected = FALSE
    /\ seenConnecting = FALSE
    /\ notified = 0
    /\ second = NotMounted

\* --------------------------------------------------------------- helpers
\* The invocations of an object whose promise is still open: those on the
\* wire and those whose completion has not been delivered yet.
Completions(r) == {i \in 1..Len(r.inbox) : r.inbox[i].kind = "Completion"}
InFlight(r) == Len(r.wire) + Cardinality(Completions(r))
EventsQueued(r) == Len(r.inbox) - Cardinality(Completions(r))

\* connectionError after the library rejected the open invocations of an
\* object: each catch block of the hook sets "Failed to ...: <library error>".
AfterRejectionsSilent(r, err) == err
AfterRejections(r, err) == IF InFlight(r) = 0 THEN err ELSE "InvokeFailed"

\* connectionError after handleDisconnection(error) ran: set only `if (error)`.
handleDisconnectionSilent(hasError, err) == err
handleDisconnection(hasError, err) == IF hasError THEN "ConnectionLost" ELSE err

\* The number of callback calls connectionCallbacks.forEach makes.
NotifyAllTwice(n) == 2 * n
NotifyAll(n) == n

\* The singleton's listener lists hold the callbacks of every mounted hook
\* instance: handleConnection and handleDisconnection of the second one run
\* in the same forEach.
secondAfterConnected ==
    IF second.mounted THEN [second EXCEPT !.isConnected = TRUE] ELSE second

secondAfterClosed(hasError) ==
    IF second.mounted
    THEN [second EXCEPT !.isConnected = FALSE,
                        !.connectionError = handleDisconnection(hasError, @)]
    ELSE second

\* A re-render is due: the hook state differs from what the last render saw.
RenderDue == seenConnected # isConnected \/ seenConnecting # isConnecting

\* ---------------------------------------------------------------- connect
\* startConnection up to `await this.connection.start()`: a new object is
\* built and becomes this.connection, its lifecycle handlers are registered
\* and start() is called.  An object it replaces keeps running.
Fresh == [NoChannel EXCEPT !.state = "Connecting"]

FreeSlot(k) ==
    /\ k # 0
    /\ chan[k].state = "None"
    /\ \A j \in Slots : (j # 0 /\ j < k) => chan[j].state # "None"

startConnection ==
    /\ IF Live(connection)
       THEN \E k \in Slots :
                /\ FreeSlot(k)
                /\ chan' = [chan EXCEPT ![k] = chan[0], ![0] = Fresh]
       ELSE chan' = [chan EXCEPT ![0] = Fresh]
    /\ isConnecting' = TRUE
    /\ connectionError' = "none"
    /\ UNCHANGED <<svcIsConnected, isConnected>>

\* The catch / finally of connect for an error thrown before an object exists.
connectRejected(kind) ==
    /\ connectionError' = kind
    /\ isConnected' = FALSE
    /\ isConnecting' = FALSE
    /\ UNCHANGED chan

\* if (isConnecting || isConnected) return;  with the values the callback captured
connectReturnsEarly == seenConnecting \/ seenConnected

\* connect(url), the variant that validates the URL first.
connect(url) ==
    /\ ~connectReturnsEarly
    /\ IF UrlMissing(url)
       THEN connectRejected("UrlRequired") /\ UNCHANGED svcIsConnected
       ELSE IF ~UrlParses(url)
       THEN connectRejected("UrlFormat") /\ UNCHANGED svcIsConnected
       ELSE startConnection
    /\ UNCHANGED <<listenerVars, messages, joinedGroups, renderVars, notified, second>>

\* connect(url), the variant that hands the URL to startConnection unchecked:
\* withUrl throws on a blank URL inside startConnection's try.
connectUnvalidated(url) ==
    /\ ~connectReturnsEarly
    /\ IF ~BuilderAccepts(url)
       THEN connectRejected("ConnectFailed") /\ svcIsConnected' = FALSE
       ELSE startConnection
    /\ UNCHANGED <<listenerVars, messages, joinedGroups, renderVars, notified, second>>

\* on('ReceiveMessage') and on('ReceiveGroupMessage') on this.connection
WithHandlers(r) == IF Live(r) THEN [r EXCEPT !.msgH = @ + 1, !.grpH = @ + 1] ELSE r

\* connection.start() of object k resolves: the rest of startConnection and of
\* connect run.  onMessage / onGroupMessage register on this.connection,
\* whichever object that is by now.
StartSucceeds(k) ==
    /\ ~RenderDue
    /\ chan[k].state = "Connecting"
    /\ LET up == [chan EXCEPT ![k].state = "Connected", ![k].started = TRUE]
       IN  chan' = [up EXCEPT ![0] = WithHandlers(up[0])]
    /\ svcIsConnected' = TRUE
    /\ notified' = NotifyAll(connectionCallbacks)
    /\ isConnected' = TRUE
    /\ isConnecting' = FALSE
    /\ second' = secondAfterConnected
    /\ UNCHANGED <<listenerVars, connectionError, messages, joinedGroups, renderVars>>

\* A rejected start() after which connect's finally would not run.
StartFailsPending(k) ==
    /\ ~RenderDue
    /\ chan[k].state = "Connecting"
    /\ chan' = [chan EXCEPT ![k] = Settle(k, [@ EXCEPT !.state = "Disconnected"])]
    /\ svcIsConnected' = FALSE
    /\ connectionError' = "ConnectFailed"
    /\ isConnected' = FALSE
    /\ UNCHANGED <<listenerVars, isConnecting, messages, joinedGroups, renderVars,
                   notified, second>>

\* A rejected start() that would leave the hook without an error.
StartFailsQuietly(k) ==
    /\ ~RenderDue
    /\ chan[k].state = "Connecting"
    /\ chan' = [chan EXCEPT ![k] = Settle(k, [@ EXCEPT !.state = "Disconnected"])]
    /\ svcIsConnected' = FALSE
    /\ isConnected' = FALSE
    /\ isConnecting' = FALSE
    /\ UNCHANGED <<listenerVars, connectionError, messages, joinedGroups, renderVars,
                   notified, second>>

\* connection.start() of object k rejects: both catch blocks and the finally run.
StartFails(k) ==
    /\ ~RenderDue
    /\ chan[k].state = "Connecting"
    /\ chan' = [chan EXCEPT ![k] = Settle(k, [@ EXCEPT !.state = "Disconnected"])]
    /\ svcIsConnected' = FALSE
    /\ connectionError' = "ConnectFailed"
    /\ isConnected' = FALSE
    /\ isConnecting' = FALSE
    /\ UNCHANGED <<listenerVars, messages, joinedGroups, renderVars, notified, second>>

\* ------------------------------------------------------------- disconnect
\* stopConnection() on behalf of `waiter`: nothing without a connection; a
\* Disconnected object's stop() resolves at once; otherwise the object goes
\* Disconnecting and the continuation waits for StopCompletes.
stopResolvesNow == connection.state = "Disconnected"
stopIgnored == FALSE
stopWaitsAlways == connection.state # "None"
stopMustWait == Live(connection)

stopConnection(waiter) ==
    /\ chan' = IF stopMustWait
               THEN [chan EXCEPT ![0].state = "Disconnecting",
                                 ![0].waiters = @ \cup {waiter}]
               ELSE chan
    /\ svcIsConnected' = IF stopResolvesNow THEN FALSE ELSE svcIsConnected

\* useSignalR.disconnect: await stopConnection(), then reset the hook state.
disconnect ==
    /\ stopConnection("disconnect")
    /\ IF stopMustWait
       THEN UNCHANGED <<isConnected, joinedGroups, messages>>
       ELSE /\ isConnected' = FALSE
            /\ joinedGroups' = <<>>
            /\ messages' = <<>>
    /\ UNCHANGED <<listenerVars, isConnecting, connectionError, renderVars, notified, second>>

\* A completed stop that would not reset the joined groups and the log.
StopCompletesKeeps(k) ==
    /\ ~RenderDue
    /\ chan[k].state = "Disconnecting"
    /\ chan' = [chan EXCEPT ![k] = Settle(k, [@ EXCEPT !.state = "Disconnected"])]
    /\ svcIsConnected' = FALSE
    /\ isConnected' = FALSE
    /\ isConnecting' = IF chan[k].started THEN isConnecting ELSE FALSE
    /\ connectionError' = IF chan[k].started
                          THEN AfterRejections(chan[k], connectionError)
                          ELSE "ConnectFailed"
    /\ second' = IF chan[k].started THEN secondAfterClosed(FALSE) ELSE second
    /\ UNCHANGED <<listenerVars, joinedGroups, messages, renderVars, notified>>

\* A stop during start that would leave connect's promise pending.
StopCompletesHangs(k) ==
    /\ ~RenderDue
    /\ chan[k].state = "Disconnecting"
    /\ chan' = [chan EXCEPT ![k] = Settle(k, [@ EXCEPT !.state = "Disconnected"])]
    /\ svcIsConnected' = FALSE
    /\ isConnected' = FALSE
    /\ connectionError' = IF chan[k].started
                          THEN AfterRejections(chan[k], connectionError)
                          ELSE connectionError
    /\ joinedGroups' = IF "disconnect" \in chan[k].waiters THEN <<>> ELSE joinedGroups
    /\ messages' = IF "disconnect" \in chan[k].waiters THEN <<>> ELSE messages
    /\ second' = IF chan[k].started THEN secondAfterClosed(FALSE) ELSE second
    /\ UNCHANGED <<listenerVars, isConnecting, renderVars, notified>>

\* connection.stop() of object k completes.  A started object calls
\* onclose(undefined); one still starting rejects its start() instead.  Open
\* invocations are rejected, the hub forgets the connection, and every
\* continuation that awaited the stop runs.
StopCompletes(k) ==
    /\ ~RenderDue
    /\ chan[k].state = "Disconnecting"
    /\ chan' = [chan EXCEPT ![k] = Settle(k, [@ EXCEPT !.state = "Disconnected"])]
    /\ svcIsConnected' = FALSE
    /\ isConnected' = FALSE
    /\ isConnecting' = IF chan[k].started THEN isConnecting ELSE FALSE
    /\ connectionError' = IF chan[k].started
                          THEN AfterRejections(chan[k], connectionError)
                          ELSE "ConnectFailed"
    /\ joinedGroups' = IF "disconnect" \in chan[k].waiters THEN <<>> ELSE joinedGroups
    /\ messages' = IF "disconnect" \in chan[k].waiters THEN <<>> ELSE messages
    /\ second' = IF chan[k].started THEN secondAfterClosed(FALSE) ELSE second
    /\ UNCHANGED <<listenerVars, renderVars, notified>>

\* ------------------------------------------------------------------ render
\* React re-renders: the callbacks capture the current isConnecting and
\* isConnected.  When isConnected changed, the effect's cleanup runs with the
\* value it captured (stopConnection() if it was true, not awaited) and the
\* effect registers handleConnection and handleDisconnection once more.
Render ==
    /\ RenderDue
    /\ seenConnected' = isConnected
    /\ seenConnecting' = isConnecting
    /\ IF seenConnected # isConnected
       THEN /\ connectionCallbacks < MaxListeners
            /\ connectionCallbacks' = connectionCallbacks + 1
            /\ disconnectionCallbacks' = disconnectionCallbacks + 1
            /\ IF seenConnected
               THEN stopConnection("cleanup")
               ELSE UNCHANGED <<chan, svcIsConnected>>
       ELSE UNCHANGED <<listenerVars, chan, svcIsConnected>>
    /\ UNCHANGED <<hookVars, notified, second>>

\* Another component calls useSignalR and is mounted: its effect registers its
\* handleConnection and handleDisconnection with the singleton service.
MountSecond ==
    /\ ~second.mounted
    /\ connectionCallbacks < MaxListeners
    /\ second' = [second EXCEPT !.mounted = TRUE]
    /\ connectionCallbacks' = connectionCallbacks + 1
    /\ disconnectionCallbacks' = disconnectionCallbacks + 1
    /\ UNCHANGED <<chan, svcIsConnected, hookVars, renderVars, notified>>

SecondRenderDue == second.mounted /\ second.seenConnected # second.isConnected

\* The second component re-renders after its isConnected changed: its
\* effect's cleanup runs with the captured value and the effect registers its
\* two listeners once more.
RenderSecond ==
    /\ SecondRenderDue
    /\ connectionCallbacks < MaxListeners
    /\ second' = [second EXCEPT !.seenConnected = second.isConnected]
    /\ connectionCallbacks' = connectionCallbacks + 1
    /\ disconnectionCallbacks' = disconnectionCallbacks + 1
    /\ IF second.seenConnected
       THEN stopConnection("cleanup")
       ELSE UNCHANGED <<chan, svcIsConnected>>
    /\ UNCHANGED <<hookVars, renderVars, notified>>

\* -------------------------------------------------------------- operations
\* An invocation on the wire; begun: the hub method is running and has done
\* its group bookkeeping.
Invocation(method, g, b) ==
    [method |-> method, group |-> g, body |-> b, begun |-> FALSE]

\* The guard the three service methods share:
\* if (!this.isConnected || !this.connection) throw ...
serviceRefuses == ~svcIsConnected \/ connection.state = "None"

\* signalRService.<method>(...) called from the hook's try block.  The service
\* guard throws, or connection.invoke is called: the library puts the
\* invocation on the wire when the object is Connected and rejects it
\* otherwise.  A throw or rejection lands in the hook's catch, which sets
\* "Failed to ...: <message>"; the model keeps the message.
invoke(method, g, b) ==
    IF serviceRefuses
    THEN /\ connectionError' = "NotEstablished"
         /\ UNCHANGED chan
    ELSE IF connection.state = "Connected"
    THEN /\ InFlight(connection) < MaxInFlight
         /\ chan' = [chan EXCEPT ![0].wire = Append(@, Invocation(method, g, b))]
         /\ UNCHANGED connectionError
    ELSE /\ connectionError' = "InvokeFailed"
         /\ UNCHANGED chan

opFrame == <<svcIsConnected, listenerVars, isConnected, isConnecting, messages,
             joinedGroups, renderVars, notified, second>>

joinGroup(g) == invoke("JoinGroup", g, "") /\ UNCHANGED opFrame

leaveGroup(g) == invoke("LeaveGroup", g, "") /\ UNCHANGED opFrame

sendMessageToGroup(g, b) == invoke("SendMessageToGroup", g, b) /\ UNCHANGED opFrame

clearMessages ==
    /\ messages # <<>>
    /\ messages' = <<>>
    /\ UNCHANGED <<chan, svcIsConnected, listenerVars, isConnected, isConnecting,
                   connectionError, joinedGroups, renderVars, notified, second>>

clearError ==
    /\ connectionError # "none"
    /\ connectionError' = "none"
    /\ UNCHANGED <<chan, svcIsConnected, listenerVars, isConnected, isConnecting,
                   messages, joinedGroups, renderVars, notified, second>>

\* --------------------------------------------------------------------- hub
Completion(inv) == [kind |-> "Completion", method |-> inv.method,
                    group |-> inv.group, body |-> ""]
GroupEvent(g, b) == [kind |-> "ReceiveGroupMessage", method |-> "",
                     group |-> g, body |-> b]
DirectEvent(b) == [kind |-> "ReceiveMessage", method |-> "", group |-> "", body |-> b]
ConnectedEvent == [kind |-> "Connected", method |-> "", group |-> "", body |-> ""]

\* The hub runs at most this many invocations of one client at a time; the
\* oldest ones on the wire are the ones it may be running.
MaximumParallelInvocationsPerClient == 2

Dispatchable(r) ==
    {i \in 1..Len(r.wire) : i <= MaximumParallelInvocationsPerClient}

\* Groups.AddToGroupAsync / RemoveFromGroupAsync for the caller's connection;
\* a blank name is refused by both methods.
HubGroupsAfter(inv, held) ==
    IF IsNullOrWhiteSpace(inv.group) THEN held
    ELSE IF inv.method = "JoinGroup" THEN held \cup {inv.group}
    ELSE IF inv.method = "LeaveGroup" THEN held \ {inv.group}
    ELSE held

\* SendMessageToGroup reaches Clients.Group(groupName) only with a non-blank
\* group and message.
FansOut(inv) ==
    /\ inv.method = "SendMessageToGroup"
    /\ ~IsNullOrWhiteSpace(inv.group)
    /\ ~IsNullOrWhiteSpace(inv.body)

Without(p, i) == SubSeq(p, 1, i - 1) \o SubSeq(p, i + 1, Len(p))

\* The hub runs one invocation of object k: the group bookkeeping, the
\* ReceiveGroupMessage fan-out to every connection the hub holds in the group,
\* then the completion to the caller.
HubProcess(k, i) ==
    /\ ~RenderDue
    /\ chan[k].state = "Connected"
    /\ i \in Dispatchable(chan[k])
    /\ LET inv == chan[k].wire[i]
           members == IF FansOut(inv)
                      THEN {d \in Slots : inv.group \in chan[d].groups}
                      ELSE {}
           arriving(d) ==
               (IF d \in members THEN <<GroupEvent(inv.group, inv.body)>> ELSE <<>>)
               \o (IF d = k THEN <<Completion(inv)>> ELSE <<>>)
       IN  /\ \A d \in members : EventsQueued(chan[d]) < MaxEvents
           /\ members # {} => Len(messages) < MaxLog
           /\ chan' = [d \in Slots |->
                         [chan[d] EXCEPT
                            !.groups = IF d = k THEN HubGroupsAfter(inv, @) ELSE @,
                            !.wire = IF d = k THEN Without(@, i) ELSE @,
                            !.inbox = @ \o arriving(d)]]
    /\ UNCHANGED <<svcIsConnected, listenerVars, hookVars, renderVars, notified, second>>

\* The hub method of an invocation, in the two steps a parallel invocation
\* of the same client can come between: first the checks and
\* AddToGroupAsync / RemoveFromGroupAsync ...
HubBegin(k, i) ==
    /\ ~RenderDue
    /\ chan[k].state = "Connected"
    /\ i \in Dispatchable(chan[k])
    /\ ~chan[k].wire[i].begun
    /\ chan' = [chan EXCEPT ![k].groups = HubGroupsAfter(chan[k].wire[i], @),
                            ![k].wire[i].begun = TRUE]
    /\ UNCHANGED <<svcIsConnected, listenerVars, hookVars, renderVars, notified, second>>

\* ... then the awaited SendAsync calls, and the completion when the method
\* returns.
HubFinish(k, i) ==
    /\ ~RenderDue
    /\ chan[k].state = "Connected"
    /\ i \in Dispatchable(chan[k])
    /\ chan[k].wire[i].begun
    /\ LET inv == chan[k].wire[i]
           members == IF FansOut(inv)
                      THEN {d \in Slots : inv.group \in chan[d].groups}
                      ELSE {}
           arriving(d) ==
               (IF d \in members THEN <<GroupEvent(inv.group, inv.body)>> ELSE <<>>)
               \o (IF d = k THEN <<Completion(inv)>> ELSE <<>>)
       IN  /\ \A d \in members : EventsQueued(chan[d]) < MaxEvents
           /\ members # {} => Len(messages) < MaxLog
           /\ chan' = [d \in Slots |->
                         [chan[d] EXCEPT
                            !.wire = IF d = k THEN Without(@, i) ELSE @,
                            !.inbox = @ \o arriving(d)]]
    /\ UNCHANGED <<svcIsConnected, listenerVars, hookVars, renderVars, notified, second>>

\* OnConnectedAsync runs for the connection of object k:
\* Clients.Caller.SendAsync("Connected", Context.ConnectionId).
HubGreets(k) ==
    /\ ~RenderDue
    /\ chan[k].state = "Connected"
    /\ ~chan[k].greeted
    /\ EventsQueued(chan[k]) < MaxEvents
    /\ chan' = [chan EXCEPT ![k].greeted = TRUE,
                            ![k].inbox = Append(@, ConnectedEvent)]
    /\ UNCHANGED <<svcIsConnected, listenerVars, hookVars, renderVars, notified, second>>

\* Another client calls SendMessage: Clients.All receives ReceiveMessage.
HubBroadcast(b) ==
    /\ ~RenderDue
    /\ Len(messages) < MaxLog
    /\ \E k \in Slots : chan[k].state = "Connected"
    /\ \A k \in Slots : chan[k].state = "Connected" => EventsQueued(chan[k]) < MaxEvents
    /\ chan' = [k \in Slots |->
                  IF chan[k].state = "Connected"
                  THEN [chan[k] EXCEPT !.inbox = Append(@, DirectEvent(b))]
                  ELSE chan[k]]
    /\ UNCHANGED <<svcIsConnected, listenerVars, hookVars, renderVars, notified, second>>

\* ----------------------------------------------------------------- inbound
RECURSIVE Copies(_, _)
Copies(e, n) == IF n = 0 THEN <<>> ELSE <<e>> \o Copies(e, n - 1)

\* setMessages(prev => [...prev, entry]), once per registered handler.
AppendedFirst(log, entries) == entries \o log
Appended(log, entries) == log \o entries

\* setJoinedGroups(prev => prev.includes(g) ? prev : [...prev, g])
RECURSIVE includes(_, _)
includes(list, g) ==
    IF list = <<>> THEN FALSE ELSE Head(list) = g \/ includes(Tail(list), g)

JoinedAfterJoinAlways(list, g) == Append(list, g)
JoinedAfterJoin(list, g) == IF includes(list, g) THEN list ELSE Append(list, g)

\* setJoinedGroups(prev => prev.filter(group => group !== groupName))
RECURSIVE filterOthers(_, _)
filterOthers(list, g) ==
    IF list = <<>> THEN <<>>
    ELSE IF Head(list) # g
         THEN <<Head(list)>> \o filterOthers(Tail(list), g)
         ELSE filterOthers(Tail(list), g)

\* The log entry a message handler builds from the event's arguments.
Entry(item) ==
    IF item.kind = "ReceiveMessage"
    THEN [type |-> "direct", groupName |-> "", message |-> item.body]
    ELSE [type |-> "group", groupName |-> item.group, message |-> item.body]

\* The handlers an object holds for the event.
Handlers(r, item) ==
    IF item.kind = "ReceiveMessage" THEN r.msgH
    ELSE IF item.kind = "ReceiveGroupMessage" THEN r.grpH
    ELSE 0

\* Object k hands its oldest item to the client.  A message event runs every
\* handler registered for it on that object; a completion resumes the hook
\* operation that awaited the invoke.
Deliver(k) ==
    /\ ~RenderDue
    /\ chan[k].state \in {"Connected", "Disconnecting"}
    /\ chan[k].inbox # <<>>
    /\ chan' = [chan EXCEPT ![k].inbox = Tail(@)]
    /\ LET item == Head(chan[k].inbox)
       IN  IF item.kind = "Completion"
           THEN /\ joinedGroups' =
                     IF item.method = "JoinGroup"
                     THEN JoinedAfterJoin(joinedGroups, item.group)
                     ELSE IF item.method = "LeaveGroup"
                     THEN filterOthers(joinedGroups, item.group)
                     ELSE joinedGroups
                /\ UNCHANGED messages
           ELSE /\ messages' = Appended(messages,
                                        Copies(Entry(item), Handlers(chan[k], item)))
                /\ UNCHANGED joinedGroups
    /\ UNCHANGED <<svcIsConnected, listenerVars, isConnected, isConnecting,
                   connectionError, renderVars, notified, second>>

\* ------------------------------------------------------- automatic reconnect
\* A drop that would also reset the joined groups.
ConnectionLostForgets(k) ==
    /\ ~RenderDue
    /\ chan[k].state = "Connected"
    /\ chan' = [chan EXCEPT ![k].state = "Reconnecting", ![k].attempt = 0,
                            ![k].wire = <<>>, ![k].inbox = <<>>, ![k].groups = {}]
    /\ connectionError' = AfterRejections(chan[k], connectionError)
    /\ joinedGroups' = <<>>
    /\ UNCHANGED <<svcIsConnected, listenerVars, isConnected, isConnecting,
                   messages, renderVars, notified, second>>

\* The transport drops under a Connected object: the library rejects the open
\* invocations, enters Reconnecting and calls the onreconnecting handler
\* (which only logs).  The hub forgets the dropped connection.
ConnectionLost(k) ==
    /\ ~RenderDue
    /\ chan[k].state = "Connected"
    /\ chan' = [chan EXCEPT ![k].state = "Reconnecting", ![k].attempt = 0,
                            ![k].wire = <<>>, ![k].inbox = <<>>, ![k].groups = {}]
    /\ connectionError' = AfterRejections(chan[k], connectionError)
    /\ UNCHANGED <<svcIsConnected, listenerVars, isConnected, isConnecting,
                   messages, joinedGroups, renderVars, notified, second>>

\* A reconnect attempt fails and the schedule names a delay for the next one.
ReconnectAttemptFails(k) ==
    /\ ~RenderDue
    /\ chan[k].state = "Reconnecting"
    /\ nextRetryDelayInMilliseconds(chan[k].attempt + 1) # -1
    /\ chan' = [chan EXCEPT ![k].attempt = @ + 1]
    /\ UNCHANGED <<svcIsConnected, listenerVars, hookVars, renderVars, notified, second>>

\* A reconnect attempt fails and the schedule is used up: the object closes
\* and the onclose handler runs, with or without an error object.
ReconnectExhausted(k, hasError) ==
    /\ ~RenderDue
    /\ chan[k].state = "Reconnecting"
    /\ nextRetryDelayInMilliseconds(chan[k].attempt + 1) = -1
    /\ chan' = [chan EXCEPT ![k] = Settle(k, [@ EXCEPT !.state = "Disconnected"])]
    /\ svcIsConnected' = FALSE
    /\ isConnected' = FALSE
    /\ connectionError' = handleDisconnection(hasError, connectionError)
    /\ second' = secondAfterClosed(hasError)
    /\ UNCHANGED <<listenerVars, isConnecting, messages, joinedGroups, renderVars,
                   notified>>

\* A reconnect attempt succeeds: the object is Connected under a new
\* identity, and the onreconnected handler runs.
Reconnected(k) ==
    /\ ~RenderDue
    /\ chan[k].state = "Reconnecting"
    /\ chan' = [chan EXCEPT ![k].state = "Connected", ![k].attempt = 0,
                            ![k].renewed = TRUE, ![k].greeted = FALSE]
    /\ svcIsConnected' = TRUE
    /\ UNCHANGED <<listenerVars, hookVars, renderVars, notified, second>>

\* ------------------------------------------------------------ specification
\* The render the UI shows is the committed one.
Committed == ~RenderDue

Next ==
    \/ Committed /\ \E url \in Urls : connect(url)
    \/ Committed /\ \E url \in Urls : connectUnvalidated(url)
    \/ \E k \in Slots : StartSucceeds(k)
    \/ \E k \in Slots : StartFails(k)
    \/ Committed /\ disconnect
    \/ \E k \in Slots : StopCompletes(k)
    \/ Render
    \/ Committed /\ \E g \in GroupNames : joinGroup(g)
    \/ Committed /\ \E g \in GroupNames : leaveGroup(g)
    \/ Committed /\ \E g \in GroupNames, b \in Bodies : sendMessageToGroup(g, b)
    \/ Committed /\ clearMessages
    \/ Committed /\ clearError
    \/ \E k \in Slots : \E i \in 1..MaxInFlight : HubProcess(k, i)
    \/ \E b \in Bodies \ {""} : HubBroadcast(b)
    \/ \E k \in Slots : Deliver(k)
    \/ \E k \in Slots : ConnectionLost(k)
    \/ \E k \in Slots : ReconnectAttemptFails(k)
    \/ \E k \in Slots, hasError \in BOOLEAN : ReconnectExhausted(k, hasError)
    \/ \E k \in Slots : Reconnected(k)

Spec == Init /\ [][Next]_vars

NextRace ==
    \/ \E url \in Urls : connect(url)
    \/ \E url \in Urls : connectUnvalidated(url)
    \/ \E k \in Slots : StartSucceeds(k)
    \/ \E k \in Slots : StartFails(k)
    \/ disconnect
    \/ \E k \in Slots : StopCompletes(k)
    \/ Render
    \/ clearError
    \/ \E k \in Slots : ConnectionLost(k)
    \/ \E k \in Slots : ReconnectAttemptFails(k)
    \/ \E k \in Slots, hasError \in BOOLEAN : ReconnectExhausted(k, hasError)
    \/ \E k \in Slots : Reconnected(k)

SpecRace == Init /\ [][NextRace]_vars

\* Two components use the hook.  The first one connects and disconnects, the
\* second one is mounted and its user does nothing.
SecondCommitted == ~SecondRenderDue

NextTwo ==
    \/ MountSecond
    \/ RenderSecond
    \/ Committed /\ SecondCommitted /\ \E url \in Urls : connect(url)
    \/ SecondCommitted /\ StartSucceeds(0)
    \/ SecondCommitted /\ StartFails(0)
    \/ Committed /\ SecondCommitted /\ disconnect
    \/ SecondCommitted /\ StopCompletes(0)
    \/ Render
    \/ Committed /\ SecondCommitted /\ clearError
    \/ SecondCommitted /\ ConnectionLost(0)
    \/ SecondCommitted /\ ReconnectAttemptFails(0)
    \/ SecondCommitted /\ \E hasError \in BOOLEAN : ReconnectExhausted(0, hasError)
    \/ SecondCommitted /\ Reconnected(0)

SpecTwo == Init /\ [][NextTwo]_vars

\* SpecHub: one connection, calls made from the rendered UI, and the hub runs
\* up to MaximumParallelInvocationsPerClient methods of the client at a time.
NextHub ==
    \/ Committed /\ \E url \in Urls : connect(url)
    \/ StartSucceeds(0)
    \/ StartFails(0)
    \/ Render
    \/ Committed /\ \E g \in Rooms : joinGroup(g)
    \/ Committed /\ \E g \in Rooms : leaveGroup(g)
    \/ Committed /\ \E g \in Rooms, b \in Bodies \ {""} : sendMessageToGroup(g, b)
    \/ Committed /\ clearMessages
    \/ \E i \in 1..MaxInFlight : HubBegin(0, i)
    \/ \E i \in 1..MaxInFlight : HubFinish(0, i)
    \/ Deliver(0)

SpecHub == Init /\ [][NextHub]_vars

\* SpecGreeting: one connection, calls made from the rendered UI, and the hub
\* greets every connection it accepts.
NextGreeting ==
    \/ Committed /\ \E url \in Urls : connect(url)
    \/ StartSucceeds(0)
    \/ StartFails(0)
    \/ Committed /\ disconnect
    \/ StopCompletes(0)
    \/ Render
    \/ HubGreets(0)
    \/ \E b \in Bodies \ {""} : HubBroadcast(b)
    \/ Deliver(0)
    \/ ConnectionLost(0)
    \/ ReconnectAttemptFails(0)
    \/ \E hasError \in BOOLEAN : ReconnectExhausted(0, hasError)
    \/ Reconnected(0)

SpecGreeting == Init /\ [][NextGreeting]_vars

\* ------------------------------------------------------------------ claims
\* The groups the hook shows as joined.
Tracked == {joinedGroups[i] : i \in 1..Len(joinedGroups)}

\* The JoinGroup invocations object r has on the wire.
Rejoining(r) == {r.wire[i].group : i \in {j \in 1..Len(r.wire) : r.wire[j].method = "JoinGroup"}}

\* Nothing of object r is in flight in either direction.
Settled(r) == r.wire = <<>> /\ r.inbox = <<>>

\* C1: when this.connection reports a successful reconnect, a JoinGroup is put
\* on the wire for every group the hook tracks at that moment, without a call
\* from the caller.
C1_RejoinOnReconnect ==
    [][Reconnected(0) => Tracked \subseteq Rejoining(chan'[0])]_vars

\* C2: once this.connection has reconnected and nothing is in flight, the
\* non-blank groups the hook tracks as joined are exactly the groups the hub
\* holds for the connection.
C2_TrackedEqualsHubAfterReconnect ==
    (connection.renewed /\ connection.state = "Connected" /\ Settled(connection))
        => Tracked \cap Rooms = connection.groups

\* C3: after a reconnect, a send to a tracked group the hub does not hold yet
\* for the new identity fails with an error and puts no SendMessageToGroup on
\* the wire.
C3_SendWaitsForRejoin ==
    [][\A g \in Rooms, b \in Bodies :
          (/\ sendMessageToGroup(g, b)
           /\ connection.renewed
           /\ connection.state = "Connected"
           /\ g \in Tracked
           /\ g \notin connection.groups)
          => (UNCHANGED chan /\ connectionError' # "none")]_vars

\* C4: a connect call made while this.connection is Connecting, Connected,
\* Reconnecting or Disconnecting builds no further HubConnection, also when
\* it follows another connect call before the re-render.
C4_NoSecondChannel ==
    [][\A url \in Urls :
          ((connect(url) \/ connectUnvalidated(url)) /\ Live(connection))
          => UNCHANGED chan]_vars

\* C5: a connect with a URL that passes the checks, made while no connection
\* is running, puts a new object in Connecting with isConnecting set and
\* isConnected clear; when its start() resolves the object goes
\* from Connecting to Connected, every entry of connectionCallbacks is called
\* exactly once, and the hook shows isConnected and no longer isConnecting.
C5_ConnectOnceNotifyOnce ==
    [][/\ \A url \in Urls :
             (connect(url) /\ ~UrlMissing(url) /\ UrlParses(url) /\ ~Live(connection))
             => (connection'.state = "Connecting" /\ isConnecting' /\ ~isConnected')
       /\ \A k \in Slots :
             StartSucceeds(k)
             => (/\ chan[k].state = "Connecting"
                 /\ chan'[k].state = "Connected"
                 /\ notified' = connectionCallbacks
                 /\ isConnected' /\ ~isConnecting')
       /\ (notified' # notified => \E k \in Slots : StartSucceeds(k))]_vars

\* C5 witness: a start() has resolved with several listeners registered, and
\* each was called once.
C5_Witness ==
    /\ connection.state = "Connected"
    /\ isConnected /\ ~isConnecting
    /\ connectionCallbacks >= 2
    /\ notified = connectionCallbacks

\* C6: a connect with an empty, blank or syntactically invalid URL reports an
\* error, neither builds nor starts a HubConnection, and leaves the hook not
\* connected.
C6_InvalidUrlRejected ==
    [][\A url \in Urls :
          ((connect(url) \/ connectUnvalidated(url))
             /\ (UrlMissing(url) \/ ~UrlParses(url)))
          => (/\ UNCHANGED chan
              /\ connectionError' # "none"
              /\ ~isConnected')]_vars

\* An operation step of the hook.
Operation ==
    \/ \E g \in GroupNames : joinGroup(g)
    \/ \E g \in GroupNames : leaveGroup(g)
    \/ \E g \in GroupNames, b \in Bodies : sendMessageToGroup(g, b)

\* C7: JoinGroup, LeaveGroup and SendMessageToGroup reach connection.invoke
\* only when the connection is Connected; in every other state, Reconnecting
\* included, the service refuses the call with its not-established error and
\* nothing is put on the wire.
C7_InvokeOnlyWhenConnected ==
    [][(Operation /\ connection.state = "Reconnecting")
          => (serviceRefuses /\ UNCHANGED chan
              /\ connectionError' = "NotEstablished")]_vars

\* C8: leaveGroup for a group the hook does not track fails with an error,
\* puts no LeaveGroup on the wire and leaves the tracked groups unchanged.
C8_LeaveUntrackedRefused ==
    [][\A g \in GroupNames :
          (leaveGroup(g) /\ g \notin Tracked)
          => (UNCHANGED <<chan, joinedGroups>> /\ connectionError' # "none")]_vars

\* The log `longer` starts with the log `shorter`.
IsPrefix(shorter, longer) ==
    /\ Len(shorter) <= Len(longer)
    /\ SubSeq(longer, 1, Len(shorter)) = shorter

\* C9: the log follows the delivery order.  A step either leaves the log
\* alone, empties it (clearMessages, disconnect), or is the delivery of one
\* event, which keeps the log so far as a prefix and adds only that event's
\* entry behind it.
C9_LogInDeliveryOrder ==
    [][\/ messages' = messages
       \/ messages' = <<>>
       \/ \E k \in Slots :
             /\ Deliver(k)
             /\ Head(chan[k].inbox).kind # "Completion"
             /\ IsPrefix(messages, messages')
             /\ \A i \in (Len(messages) + 1)..Len(messages') :
                   messages'[i] = Entry(Head(chan[k].inbox))]_vars

\* C9 witness: two events of different kinds have been delivered and both
\* entries are in the log.
C9_Witness ==
    /\ Len(messages) = 2
    /\ messages[1].type # messages[2].type

C11_DisconnectAlwaysStops ==
    [][/\ disconnect
          => IF Live(connection)
             THEN /\ connection'.state = "Disconnecting"
                  /\ "disconnect" \in connection'.waiters
             ELSE ~isConnected' /\ ~svcIsConnected' /\ UNCHANGED chan
       /\ (StopCompletes(0) /\ "disconnect" \in connection.waiters)
          => (/\ connection' = Closed
              /\ ~svcIsConnected' /\ ~isConnected')
       /\ connection.state \in {"Disconnecting", "Disconnected"}
          => connection'.state \notin {"Reconnecting", "Connected"}]_vars

\* C11 witness: disconnect was called while the object was reconnecting after
\* a failed attempt, and its stop is under way.
C11_Witness ==
    /\ connection.state = "Disconnecting"
    /\ "disconnect" \in connection.waiters
    /\ connection.attempt > 0

\* A further disconnect would change nothing: not the connection, not the
\* listeners, not the hook state.
DisconnectIsNoOp == ~ENABLED <<disconnect>>_vars

\* C12: disconnect is idempotent.  Right after a disconnect call, and right
\* after the stop it asked for has completed, a second disconnect call leaves
\* the connection, its identity, the tracked groups, the log and the error
\* exactly as they are.
C12_DisconnectIdempotent ==
    [][/\ disconnect => DisconnectIsNoOp'
       /\ (StopCompletes(0) /\ "disconnect" \in connection.waiters)
          => DisconnectIsNoOp']_vars

\* C12 witness: a disconnect has completed on an object that had been
\* connected, and a second one finds nothing to change.
C12_Witness ==
    /\ connection.state = "Disconnected"
    /\ connectionCallbacks >= 2
    /\ joinedGroups = <<>> /\ messages = <<>>
    /\ ~isConnected /\ ~RenderDue
    /\ DisconnectIsNoOp

\* C13: joinGroup with an empty or blank name fails at once: no JoinGroup is
\* put on the wire, the tracked groups stay as they are and an error is set.
C13_BlankJoinRefused ==
    [][\A g \in GroupNames :
          (joinGroup(g) /\ IsNullOrWhiteSpace(g))
          => (UNCHANGED <<chan, joinedGroups>> /\ connectionError' # "none")]_vars

\* C14: sendMessageToGroup for a group the hook does not track fails and puts
\* no SendMessageToGroup on the wire.
C14_SendNeedsMembership ==
    [][\A g \in Rooms, b \in Bodies \ {""} :
          (sendMessageToGroup(g, b) /\ g \notin Tracked)
          => (UNCHANGED chan /\ connectionError' # "none")]_vars

\* C15: sendMessageToGroup with a blank message fails before any remote call:
\* no SendMessageToGroup is put on the wire and the log is unchanged.
C15_BlankBodyRefused ==
    [][\A g \in Rooms, b \in Bodies :
          (sendMessageToGroup(g, b) /\ IsNullOrWhiteSpace(b))
          => (UNCHANGED <<chan, messages>> /\ connectionError' # "none")]_vars

\* SpecRaceChat: connect is called from code, also back to back before React
\* has re-rendered, and the client then joins rooms and sends to them.
NextRaceChat ==
    \/ \E url \in Urls : connect(url)
    \/ \E k \in Slots : StartSucceeds(k)
    \/ \E k \in Slots : StartFails(k)
    \/ Render
    \/ \E g \in Rooms : joinGroup(g)
    \/ \E g \in Rooms, b \in Bodies \ {""} : sendMessageToGroup(g, b)
    \/ \E k \in Slots : \E i \in 1..MaxInFlight : HubProcess(k, i)
    \/ \E k \in Slots : Deliver(k)

SpecRaceChat == Init /\ [][NextRaceChat]_vars

\* C16: a send appends nothing to the log by itself, and the
\* ReceiveGroupMessage event the hub echoes to this.connection adds exactly
\* one entry, with the event's group and body, also after more than one
\* connect call.
C16_OneEntryPerEcho ==
    [][/\ \A g \in Rooms, b \in Bodies :
             sendMessageToGroup(g, b) => UNCHANGED messages
       /\ (Deliver(0) /\ Head(connection.inbox).kind = "ReceiveGroupMessage")
          => messages' = Append(messages, Entry(Head(connection.inbox)))]_vars

\* C17: while this.connection is Reconnecting after a drop, neither the hook
\* nor the service reports the client as connected.
C17_NotConnectedWhileReconnecting ==
    connection.state = "Reconnecting" => (~isConnected /\ ~svcIsConnected)

\* C18: the delivery of the JoinGroup completion alone does not make a group
\* joined: the joined groups change only on the hub's JoinedGroup event.
C18_CompletionDoesNotConfirm ==
    [][(/\ Deliver(0)
        /\ Head(connection.inbox).kind = "Completion"
        /\ Head(connection.inbox).method = "JoinGroup")
       => UNCHANGED joinedGroups]_vars

\* The JoinGroup invocations of object r whose promise is still open.
JoinsOpen(r) ==
    {r.wire[i].group : i \in {j \in 1..Len(r.wire) : r.wire[j].method = "JoinGroup"}}
    \cup {r.inbox[i].group : i \in {j \in Completions(r) : r.inbox[j].method = "JoinGroup"}}

\* C19: a failed JoinGroup leaves no tracked entry behind and its failure is
\* shown.  A joinGroup call that is refused or rejected at once adds nothing
\* to the joined groups and sets the error; when the library rejects an open
\* JoinGroup because the connection dropped or was stopped, the error is set
\* and no group is added.
C19_FailedJoinNotTracked ==
    [][/\ \A g \in GroupNames :
             (joinGroup(g) /\ UNCHANGED chan)
             => (/\ UNCHANGED joinedGroups
                 /\ connectionError' \in {"NotEstablished", "InvokeFailed"})
       /\ \A k \in Slots :
             ((ConnectionLost(k) \/ StopCompletes(k)) /\ JoinsOpen(chan[k]) # {})
             => (/\ connectionError' = "InvokeFailed"
                 /\ Tracked' \subseteq Tracked)]_vars

\* C19 witness: an invocation made on the first connection failed (rejected
\* by the drop, or refused by the library while reconnecting); the error is
\* shown and no group is tracked.
C19_Witness ==
    /\ connection.state = "Reconnecting"
    /\ connectionError = "InvokeFailed"
    /\ joinedGroups = <<>>
    /\ connection.attempt = 0
    /\ messages = <<>>

\* C20: a tracked group leaves the joined groups only on the hub's LeftGroup
\* event: the delivery of the LeaveGroup completion alone removes nothing.
C20_CompletionDoesNotRemove ==
    [][(/\ Deliver(0)
        /\ Head(connection.inbox).kind = "Completion"
        /\ Head(connection.inbox).method = "LeaveGroup")
       => UNCHANGED joinedGroups]_vars

\* A step of the transport of object k: a drop, a reconnect attempt that
\* fails, the end of the schedule, a reconnect, or a start() that fails.
TransportStep(k) ==
    \/ ConnectionLost(k)
    \/ ReconnectAttemptFails(k)
    \/ \E hasError \in BOOLEAN : ReconnectExhausted(k, hasError)
    \/ Reconnected(k)
    \/ StartFails(k)

C22_LogAppendOnly ==
    [][IsPrefix(messages, messages') \/ clearMessages]_vars

\* A step in which the service calls a listener list: connectionCallbacks
\* after a start(), disconnectionCallbacks in the onclose handler.
Notifies ==
    \E k \in Slots :
        \/ StartSucceeds(k)
        \/ StopCompletes(k) /\ chan[k].started
        \/ \E hasError \in BOOLEAN : ReconnectExhausted(k, hasError)

\* C23: every change of the connection state reaches the registered
\* listeners; in particular the step into Reconnecting and the step back to
\* Connected each call them.
C23_EveryTransitionNotified ==
    [][\A k \in Slots : (ConnectionLost(k) \/ Reconnected(k)) => Notifies]_vars

\* C24: a successful reconnect gives the connection a new identity and calls
\* the registered listeners.
C24_ReconnectNotified ==
    [][Reconnected(0) => (connection'.renewed /\ Notifies)]_vars

\* A connect call that is accepted: it builds and starts a HubConnection.
ConnectAccepted ==
    \E url \in Urls : connect(url) /\ connection'.state = "Connecting"

\* C25: when start() rejects during connect, this.connection is Disconnected,
\* the service and the hook show not connected and not connecting, the error
\* is shown, connectionCallbacks is not called; and once the hook has
\* re-rendered over a Disconnected connection a connect is accepted again.
C25_FailedStartRecovers ==
    /\ [][StartFails(0)
            => (/\ connection'.state = "Disconnected"
                /\ ~svcIsConnected' /\ ~isConnected' /\ ~isConnecting'
                /\ connectionError' = "ConnectFailed"
                /\ notified' = notified)]_vars
    /\ []((connection.state = "Disconnected" /\ ~RenderDue) => ENABLED ConnectAccepted)

\* C25 witness: the first start() was rejected; the error is shown, no
\* listener was ever called, and the next connect is accepted.
C25_Witness ==
    /\ connection.state = "Disconnected"
    /\ connectionError = "ConnectFailed"
    /\ ~isConnected /\ ~isConnecting /\ ~RenderDue
    /\ notified = 0
    /\ ENABLED ConnectAccepted

\* C26: an operation the hub refused is not reported as a success.  When the
\* completion of a JoinGroup or LeaveGroup the hub refused for its blank name
\* is delivered, the joined groups stay as they are and an error is shown.
C26_HubRefusalSurfaced ==
    [][(/\ Deliver(0)
        /\ Head(connection.inbox).kind = "Completion"
        /\ Head(connection.inbox).method \in {"JoinGroup", "LeaveGroup"}
        /\ IsNullOrWhiteSpace(Head(connection.inbox).group))
       => (UNCHANGED joinedGroups /\ connectionError' # "none")]_vars

NoDuplicates(list) ==
    \A i, j \in DOMAIN list : list[i] = list[j] => i = j

Before(list, a, b) ==
    \E i, j \in DOMAIN list : i < j /\ list[i] = a /\ list[j] = b

\* Every name that stands before a kept name stood before it already: kept
\* names do not move and new names go to the end.
KeepsOrder(old, new) ==
    \A a, b \in GroupNames :
        (Before(new, a, b) /\ includes(old, b)) => Before(old, a, b)

\* C27: the joined groups never hold a name twice, and no step moves a name:
\* a join of a tracked group changes nothing, a join of a new group appends it,
\* a leave takes the name out and leaves the others in their order.
C27_JoinedGroupsOrderedSet ==
    /\ [](NoDuplicates(joinedGroups))
    /\ [][KeepsOrder(joinedGroups, joinedGroups')]_vars
    /\ [][(/\ Deliver(0)
           /\ Head(connection.inbox).kind = "Completion"
           /\ Head(connection.inbox).method = "JoinGroup"
           /\ includes(joinedGroups, Head(connection.inbox).group))
          => UNCHANGED joinedGroups]_vars

\* Two groups are tracked and the completion of a second join of the first one
\* is about to be delivered.
C27_Witness ==
    /\ Len(joinedGroups) = 2
    /\ connection.state = "Connected"
    /\ connection.inbox # <<>>
    /\ Head(connection.inbox).kind = "Completion"
    /\ Head(connection.inbox).method = "JoinGroup"
    /\ Head(connection.inbox).group = joinedGroups[1]

\* C28: what the first hook instance and its connection do leaves the second
\* instance as it is: only the second component's own mount and render change
\* its state.
C28_InstancesIndependent ==
    [][MountSecond \/ RenderSecond \/ UNCHANGED second]_vars

\* C29: the service's isConnected flag is set exactly when this.connection is
\* in its Connected state.
C29_ServiceFlagMatchesChannel ==
    svcIsConnected <=> connection.state = "Connected"

\* The HubConnection objects the service built whose start() completed and
\* that have not closed.
Running == {k \in Slots : chan[k].started /\ Live(chan[k])}

\* C30: at most one HubConnection the service built is running at any time:
\* an object startConnection replaced is stopped or was never started.
C30_AtMostOneRunning ==
    Cardinality(Running) <= 1

\* disconnect() was called on this.connection while its start() was pending.
StoppedWhileStarting ==
    /\ connection.state = "Disconnecting"
    /\ ~connection.started
    /\ "disconnect" \in connection.waiters

\* C31: a disconnect called while the connect is in flight wins.  The pending
\* start() cannot resolve any more, and when the stop completes the connection
\* is Disconnected, the service flag and the hook's isConnected and
\* isConnecting are clear, and no connectionCallbacks entry has been called.
C31_DisconnectBeatsConnect ==
    [][StoppedWhileStarting
        => (/\ ~StartSucceeds(0)
            /\ StopCompletes(0)
                 => (/\ connection'.state = "Disconnected"
                     /\ ~svcIsConnected' /\ ~isConnected' /\ ~isConnecting'
                     /\ notified' = notified))]_vars

C31_Witness == StoppedWhileStarting

\* Nothing is in flight: no start() or stop() is pending on any object, no
\* replaced object is still running, and the hook has rendered its state.
Quiescent ==
    /\ ~RenderDue
    /\ ~isConnecting
    /\ connection.state \notin {"Connecting", "Disconnecting"}
    /\ \A k \in Slots \ {0} : ~Live(chan[k])

\* C32: whenever nothing is in flight the hook's isConnected equals the
\* service's isConnected flag.
C32_HookAgreesWithService ==
    Quiescent => (isConnected = svcIsConnected)

\* C33: when the start() of a new this.connection resolves, every group the
\* hook shows as joined is a group the hub holds for that connection: nothing
\* tracked from an earlier session is carried over.
C33_NoGroupsFromDeadSession ==
    [][StartSucceeds(0) => (Tracked' \cap Rooms) \subseteq connection'.groups]_vars

\* disconnect() awaits the stop of this.connection while invocations of it
\* are still open.
DisconnectWithOpenCalls ==
    /\ connection.state = "Disconnecting"
    /\ "disconnect" \in connection.waiters
    /\ InFlight(connection) > 0

NotConnectedYet == connection.state \in {"None", "Disconnected", "Connecting"}

\* C34: when a disconnect completes, the joined groups and the log are empty,
\* whatever invocations were open; and while this.connection has not
\* connected again, empty joined groups and an empty log stay empty.
C34_DisconnectLeavesNothing ==
    /\ [][((StopCompletes(0) /\ "disconnect" \in connection.waiters)
             \/ (disconnect /\ ~stopMustWait))
          => (joinedGroups' = <<>> /\ messages' = <<>>)]_vars
    /\ [][(NotConnectedYet /\ joinedGroups = <<>> /\ messages = <<>>)
          => (joinedGroups' = <<>> /\ messages' = <<>>)]_vars

\* A disconnect is pending with open invocations, a tracked group and a log
\* entry.
C34_Witness ==
    /\ DisconnectWithOpenCalls
    /\ joinedGroups # <<>>
    /\ messages # <<>>

\* C35: once every invocation of a connection that never reconnected has
\* completed, the rooms the hook tracks are exactly the rooms the hub holds
\* for it, whatever the order in which the hub ran a JoinGroup and a
\* LeaveGroup that were open together and the order of their completions.
C35_JoinLeaveRaceSettles ==
    (connection.state = "Connected" /\ ~connection.renewed /\ Settled(connection))
        => Tracked \cap Rooms = connection.groups

\* What settles is fair: React renders a changed state, and a pending
\* start() or stop() of this.connection resolves or rejects.
Settles == StartSucceeds(0) \/ StartFails(0) \/ StopCompletes(0)

SpecFair == Spec /\ WF_vars(Render) /\ WF_vars(Settles)

\* C36: every connect terminates.  isConnecting is eventually reset, and at
\* the step that resets it this.connection is Connected or has no running
\* object, never Connecting.
C36_ConnectTerminates ==
    /\ isConnecting ~> ~isConnecting
    /\ [][(isConnecting /\ ~isConnecting')
          => connection'.state \in {"Connected", "Disconnected", "None"}]_vars

\* A connect is in flight and the hook shows it.
C36_Witness ==
    /\ isConnecting
    /\ seenConnecting
    /\ connection.state = "Connecting"

\* C37: every event this.connection hands to the client after its start()
\* succeeded reaches at least one registered handler.
C37_NoInboundEventLost ==
    [][(Deliver(0) /\ Head(connection.inbox).kind # "Completion")
       => Handlers(connection, Head(connection.inbox)) >= 1]_vars

\* The hook instances that are mounted.
MountedHooks == 1 + (IF second.mounted THEN 1 ELSE 0)

\* C38: the service's two listener lists hold one entry per mounted hook
\* instance, whatever connects, disconnects and connection losses happened.
C38_OneListenerPerHook ==
    /\ connectionCallbacks = MountedHooks
    /\ disconnectionCallbacks = MountedHooks

====
